---- MODULE Spec2Model ----
(***************************************************************************)
(* Stroke-geometry core of sketcher (native/src/calligraphy_native.cpp):   *)
(* the point-sequence filters, the calligraphy segment calculator and the  *)
(* mesh builder, each a function writing into a caller-owned buffer of     *)
(* fixed capacity and returning the number of elements written.            *)
(*                                                                         *)
(* Number representation (doubles are modelled by exact arithmetic):        *)
(*   x, y, timestamp, tiltX, tiltY   integers                              *)
(*   pressure, opacity               hundredths    (100 means 1.0)         *)
(*   smoothing_factor                fifths        (5 means 1.0)           *)
(*   epsilon                         halves        (2 means 1.0)           *)
(*   nib_width_factor                tenths        (10 means 1.0)          *)
(*   nib_angle_deg                   hundredths of a degree                *)
(*   deviations, thickness, alpha,   quotients num / den in lowest terms   *)
(*   vertex coordinates                                                    *)
(* Input positions lie on a grid on which every quotient and square root   *)
(* the code takes is exact in these units.  Pointers are non-null.         *)
(***************************************************************************)
EXTENDS Integers, Sequences, FiniteSets, TLC

\* Longest input stroke and largest output capacity explored.
MaxLen == 5
MaxCap == 5

VARIABLES
    points,            \* the caller's input stroke, a sequence of PointData
    op,                \* the function called ("none" before the call)
    input_count,       \* the count argument of the call
    max_output,        \* the capacity argument (max_output / max_segments / max_vertices)
    max_indices,       \* build_calligraphy_mesh: capacity of out_indices
    smoothing_factor, spacing, epsilon,
    stroke_width, opacity, nib_angle_deg, nib_width_factor,
    ret,               \* the returned element count
    output_points,     \* memory behind output_points, slot -> PointData
    out_velocities,    \* memory behind out_velocities
    output_segments,   \* memory behind output_segments
    out_vertices,      \* memory behind out_vertices
    out_indices,       \* memory behind out_indices
    out_index_count    \* *out_index_count

vars == <<points, op, input_count, max_output, max_indices,
          smoothing_factor, spacing, epsilon,
          stroke_width, opacity, nib_angle_deg, nib_width_factor,
          ret, output_points, out_velocities, output_segments,
          out_vertices, out_indices, out_index_count>>

----------------------------------------------------------------------------
(* Data *)

Min(a, b) == IF b < a THEN b ELSE a
Max(a, b) == IF a < b THEN b ELSE a
\* std::clamp(v, lo, hi)
Clamp(v, lo, hi) == IF v < lo THEN lo ELSE IF hi < v THEN hi ELSE v

PointData(x, y, pressure, timestamp, tiltX, tiltY) ==
    [x |-> x, y |-> y, pressure |-> pressure, timestamp |-> timestamp,
     tiltX |-> tiltX, tiltY |-> tiltY]

\* input_points[i], 0-based as in the source
At(input_points, i) == input_points[i + 1]

\* Content of a buffer slot no call has written.
NoPoint == PointData(-1, -1, -1, -1, -1, -1)
NoVelocity == [d2 |-> -1, dt |-> -1]

\* The slots of memory behind an output pointer.  The model keeps more slots
\* than any capacity handed to a call uses, so a write past the capacity
\* would land in a slot and be seen.
Slots == 0 .. (MaxLen + 1)
FreshPoints == [k \in Slots |-> NoPoint]
FreshVelocities == [k \in Slots |-> NoVelocity]

\* The sequence held by the first n slots of a buffer.
Written(buf, n) == [k \in 1 .. Max(n, 0) |-> buf[k - 1]]

----------------------------------------------------------------------------
(* smooth_stroke_points *)

RECURSIVE CopyLoop(_, _, _, _)
CopyLoop(input_points, i, copy_count, buf) ==
    IF i < copy_count
    THEN CopyLoop(input_points, i + 1, copy_count,
                  [buf EXCEPT ![i] = At(input_points, i)])
    ELSE buf

\* factor * (prev + next) * 0.5 + inv_factor * curr, factor in fifths
SmoothVal(factor, prev, curr, next) ==
    (factor * (prev + next) + 2 * (5 - factor) * curr) \div 10

SmoothPoint(factor, prev, curr, next) ==
    PointData(SmoothVal(factor, prev.x, curr.x, next.x),
              SmoothVal(factor, prev.y, curr.y, next.y),
              SmoothVal(factor, prev.pressure, curr.pressure, next.pressure),
              curr.timestamp, curr.tiltX, curr.tiltY)

RECURSIVE SmoothLoop(_, _, _, _, _, _, _)
SmoothLoop(input_points, input_count_, factor, max_output_, i, output_count, buf) ==
    IF i < input_count_ - 1 /\ output_count < max_output_
    THEN SmoothLoop(input_points, input_count_, factor, max_output_, i + 1,
                    output_count + 1,
                    [buf EXCEPT ![output_count] =
                        SmoothPoint(factor, At(input_points, i - 1),
                                    At(input_points, i), At(input_points, i + 1))])
    ELSE [count |-> output_count, buf |-> buf]

\* Mutation: the final anchor is read one element early.
SmoothKeepLast_OffByOne(input_points, input_count_) ==
    At(input_points, input_count_ - 2)

\* "Always keep last point": the element stored after the loop.
SmoothKeepLast(input_points, input_count_) == At(input_points, input_count_ - 1)

smooth_stroke_points(input_points, input_count_, smoothing_factor_, buf, max_output_) ==
    IF input_count_ < 3 \/ max_output_ <= 0
    THEN LET copy_count == Min(input_count_, max_output_)
         IN  [ret |-> copy_count,
              buf |-> CopyLoop(input_points, 0, copy_count, buf)]
    ELSE LET factor == Clamp(smoothing_factor_, 0, 5)
             first == [buf EXCEPT ![0] = At(input_points, 0)]
             l == SmoothLoop(input_points, input_count_, factor, max_output_,
                             1, 1, first)
         IN  IF l.count < max_output_
             THEN [ret |-> l.count + 1,
                   buf |-> [l.buf EXCEPT ![l.count] =
                               SmoothKeepLast(input_points, input_count_)]]
             ELSE [ret |-> l.count, buf |-> l.buf]

----------------------------------------------------------------------------
(* resample_stroke_points *)

dist2(x1, y1, x2, y2) ==
    LET dx == x2 - x1
        dy == y2 - y1
    IN  dx * dx + dy * dy

\* Mutation: the capacity test admits one element too many.
ResampleHasRoom_OffByOne(out, max_output_) == out <= max_output_

\* out < max_output, the test guarding every write after the first
ResampleHasRoom(out, max_output_) == out < max_output_

\* Mutation: the final sample is appended only when two slots are free.
ResampleRoomForLast_TwoSlots(out, max_output_) == out + 1 < max_output_

\* if (out < max_output) before the final sample is appended
ResampleRoomForLast(out, max_output_) == out < max_output_

RECURSIVE ResampleLoop(_, _, _, _, _, _, _, _)
ResampleLoop(input_points, input_count_, spacing2, max_output_, i, out, last, buf) ==
    IF i < input_count_ /\ ResampleHasRoom(out, max_output_)
    THEN LET p == At(input_points, i)
         IN  IF dist2(last.x, last.y, p.x, p.y) >= spacing2
             THEN ResampleLoop(input_points, input_count_, spacing2, max_output_,
                               i + 1, out + 1, p, [buf EXCEPT ![out] = p])
             ELSE ResampleLoop(input_points, input_count_, spacing2, max_output_,
                               i + 1, out, last, buf)
    ELSE [out |-> out, buf |-> buf]

resample_stroke_points(input_points, input_count_, spacing_, buf, max_output_) ==
    IF input_count_ <= 0 \/ max_output_ <= 0
    THEN [ret |-> 0, buf |-> buf]
    ELSE IF input_count_ = 1
    THEN [ret |-> 1, buf |-> [buf EXCEPT ![0] = At(input_points, 0)]]
    ELSE LET spacing2 == spacing_ * spacing_
             last == At(input_points, 0)
             l == ResampleLoop(input_points, input_count_, spacing2, max_output_,
                               1, 1, last, [buf EXCEPT ![0] = last])
         IN  IF ResampleRoomForLast(l.out, max_output_)
             THEN [ret |-> l.out + 1,
                   buf |-> [l.buf EXCEPT ![l.out] =
                               At(input_points, input_count_ - 1)]]
             ELSE [ret |-> l.out, buf |-> l.buf]

----------------------------------------------------------------------------
(* compute_stroke_velocity *)

\* A velocity d / dt is kept as the pair (d * d, dt in microseconds):
\* d = sqrt(dist2), dt = max(1e-6, b.timestamp - a.timestamp).
Velocity(a, b) ==
    [d2 |-> dist2(a.x, a.y, b.x, b.y),
     dt |-> Max(1, (b.timestamp - a.timestamp) * 1000000)]

RECURSIVE VelocityLoop(_, _, _, _, _, _)
VelocityLoop(points_, point_count, max_output_, i, out, buf) ==
    IF i < point_count /\ out < max_output_
    THEN VelocityLoop(points_, point_count, max_output_, i + 1, out + 1,
                      [buf EXCEPT ![out] = Velocity(At(points_, i - 1), At(points_, i))])
    ELSE [ret |-> out, buf |-> buf]

compute_stroke_velocity(points_, point_count, buf, max_output_) ==
    IF point_count < 2 \/ max_output_ <= 0
    THEN [ret |-> 0, buf |-> buf]
    ELSE VelocityLoop(points_, point_count, max_output_, 1, 0, buf)

----------------------------------------------------------------------------
(* simplify_stroke_rdp *)

\* Exact quotients: a double that is a ratio of grid integers is kept as
\* num / den in lowest terms, den > 0.
RECURSIVE Gcd(_, _)
Gcd(a, b) == IF b = 0 THEN a ELSE Gcd(b, a % b)

Ratio(num, den) ==
    LET g == Gcd(IF num < 0 THEN -num ELSE num, den)
    IN  [num |-> num \div g, den |-> den \div g]

\* a > b on quotients
RatGT(a, b) == a.num * b.den > b.num * a.den

\* Mutation: the projection parameter is not divided by the chord's
\* squared length.
ProjParam_NoDivide(P, A, vx, vy, vlen2) ==
    Ratio((P.x - A.x) * vx + (P.y - A.y) * vy, 1)

\* t before clamping: 0.0, or the dot product over vlen2 when vlen2 > 1e-12
ProjParam(P, A, vx, vy, vlen2) ==
    IF vlen2 > 0
    THEN Ratio((P.x - A.x) * vx + (P.y - A.y) * vy, vlen2)
    ELSE Ratio(0, 1)

\* t = max(0.0, min(1.0, t))
ClampUnit(t) ==
    IF t.num < 0 THEN Ratio(0, 1)
    ELSE IF t.num > t.den THEN Ratio(1, 1)
    ELSE t

\* d2 = dist2(P, A + t * v)
SegDist2(P, A, vx, vy, t) ==
    LET ex == (P.x - A.x) * t.den - t.num * vx
        ey == (P.y - A.y) * t.den - t.num * vy
    IN  Ratio(ex * ex + ey * ey, t.den * t.den)

\* The scan for the sample of largest deviation; the first index found with
\* a strictly greater deviation wins.
RECURSIVE RdpScan(_, _, _, _, _, _)
RdpScan(pts, s, e, i, idx, maxd) ==
    IF i < e
    THEN LET A == At(pts, s)
             B == At(pts, e)
             P == At(pts, i)
             vx == B.x - A.x
             vy == B.y - A.y
             vlen2 == vx * vx + vy * vy
             t == ClampUnit(ProjParam(P, A, vx, vy, vlen2))
             d2 == SegDist2(P, A, vx, vy, t)
         IN  IF RatGT(d2, maxd)
             THEN RdpScan(pts, s, e, i + 1, i, d2)
             ELSE RdpScan(pts, s, e, i + 1, idx, maxd)
    ELSE [idx |-> idx, maxd |-> maxd]

\* Mutation: the retained sample is pushed before the left half is visited.
RECURSIVE rdp_PushFirst(_, _, _, _, _)
rdp_PushFirst(pts, s, e, eps2, out) ==
    IF e <= s + 1
    THEN out
    ELSE LET m == RdpScan(pts, s, e, s + 1, -1, Ratio(0, 1))
         IN  IF RatGT(m.maxd, eps2) /\ m.idx # -1
             THEN rdp_PushFirst(pts, m.idx, e, eps2,
                      rdp_PushFirst(pts, s, m.idx, eps2, Append(out, At(pts, m.idx))))
             ELSE out

RECURSIVE rdp(_, _, _, _, _)
rdp(pts, s, e, eps2, out) ==
    IF e <= s + 1
    THEN out
    ELSE LET m == RdpScan(pts, s, e, s + 1, -1, Ratio(0, 1))
         IN  IF RatGT(m.maxd, eps2) /\ m.idx # -1
             THEN rdp(pts, m.idx, e, eps2,
                      Append(rdp(pts, s, m.idx, eps2, out), At(pts, m.idx)))
             ELSE out

simplify_stroke_rdp(input_points, input_count_, epsilon_, buf, max_output_) ==
    IF input_count_ = 0 \/ max_output_ <= 0
    THEN [ret |-> 0, buf |-> buf]
    ELSE IF input_count_ <= 2
    THEN LET c == Min(input_count_, max_output_)
         IN  [ret |-> c, buf |-> CopyLoop(input_points, 0, c, buf)]
    ELSE LET pts == SubSeq(input_points, 1, input_count_)
             out == Append(rdp(pts, 0, input_count_ - 1,
                               Ratio(epsilon_ * epsilon_, 4), <<At(pts, 0)>>),
                           At(pts, input_count_ - 1))
             c == Min(Len(out), max_output_)
         IN  [ret |-> c, buf |-> CopyLoop(out, 0, c, buf)]

----------------------------------------------------------------------------
(* The callers of the filters *)

\* Strokes over a set of samples, up to n samples long.
Strokes(pool, n) == UNION {[1 .. k -> pool] : k \in 0 .. n}

\* Samples of the filter runs: three on the x axis, in the order of the
\* documented resampling example, and one off the axis.
FilterSamples ==
    {PointData(0, 0, 100, 0, 0, 0), PointData(10, 0, 100, 1, 0, 0),
     PointData(20, 0, 100, 2, 0, 0), PointData(10, 10, 50, 1, 3, 4)}

\* A count argument: the length of the stroke, or a negative count.
Counts(s) == {Len(s), -1}
Capacities == -1 .. MaxCap

\* fifths: below 0, inside (0,1), above 1
SmoothingFactors == {-2, 2, 7}
Spacings == {0, 5, 15}
\* halves
Epsilons == {0, 1, 30}

Idle ==
    /\ op = "none"
    /\ input_count = 0
    /\ max_output = 0
    /\ max_indices = 0
    /\ smoothing_factor = 0
    /\ spacing = 0
    /\ epsilon = 0
    /\ stroke_width = 0
    /\ opacity = 0
    /\ nib_angle_deg = 0
    /\ nib_width_factor = 0
    /\ ret = 0
    /\ output_points = FreshPoints
    /\ out_velocities = FreshVelocities
    /\ out_index_count = 0

InitFilters ==
    /\ points \in Strokes(FilterSamples, MaxLen)
    /\ Idle
    /\ output_segments = <<>>
    /\ out_vertices = <<>>
    /\ out_indices = <<>>

CallSmooth ==
    /\ op = "none"
    /\ \E n \in Counts(points), cap \in Capacities, f \in SmoothingFactors :
          LET r == smooth_stroke_points(points, n, f, output_points, cap)
          IN  /\ op' = "smooth"
              /\ input_count' = n
              /\ max_output' = cap
              /\ smoothing_factor' = f
              /\ ret' = r.ret
              /\ output_points' = r.buf
    /\ UNCHANGED <<points, max_indices, spacing, epsilon, stroke_width, opacity,
                   nib_angle_deg, nib_width_factor, out_velocities,
                   output_segments, out_vertices, out_indices, out_index_count>>

CallResample ==
    /\ op = "none"
    /\ \E n \in Counts(points), cap \in Capacities, sp \in Spacings :
          LET r == resample_stroke_points(points, n, sp, output_points, cap)
          IN  /\ op' = "resample"
              /\ input_count' = n
              /\ max_output' = cap
              /\ spacing' = sp
              /\ ret' = r.ret
              /\ output_points' = r.buf
    /\ UNCHANGED <<points, max_indices, smoothing_factor, epsilon, stroke_width,
                   opacity, nib_angle_deg, nib_width_factor, out_velocities,
                   output_segments, out_vertices, out_indices, out_index_count>>

CallSimplify ==
    /\ op = "none"
    /\ \E n \in Counts(points), cap \in Capacities, eps \in Epsilons :
          LET r == simplify_stroke_rdp(points, n, eps, output_points, cap)
          IN  /\ op' = "simplify"
              /\ input_count' = n
              /\ max_output' = cap
              /\ epsilon' = eps
              /\ ret' = r.ret
              /\ output_points' = r.buf
    /\ UNCHANGED <<points, max_indices, smoothing_factor, spacing, stroke_width,
                   opacity, nib_angle_deg, nib_width_factor, out_velocities,
                   output_segments, out_vertices, out_indices, out_index_count>>

CallVelocity ==
    /\ op = "none"
    /\ \E n \in Counts(points), cap \in Capacities :
          LET r == compute_stroke_velocity(points, n, out_velocities, cap)
          IN  /\ op' = "velocity"
              /\ input_count' = n
              /\ max_output' = cap
              /\ ret' = r.ret
              /\ out_velocities' = r.buf
    /\ UNCHANGED <<points, max_indices, smoothing_factor, spacing, epsilon,
                   stroke_width, opacity, nib_angle_deg, nib_width_factor,
                   output_points, output_segments, out_vertices, out_indices,
                   out_index_count>>

NextFilters == CallSmooth \/ CallResample \/ CallSimplify \/ CallVelocity

SpecFilters == InitFilters /\ [][NextFilters]_vars

----------------------------------------------------------------------------
(* FastTrig *)

TABLE_SIZE == 3600

\* static_cast<int>(v / d) and the % of C: both truncate toward zero.
TruncDiv(a, b) == IF a >= 0 THEN a \div b ELSE -((-a) \div b)
TruncRem(a, b) == a - b * TruncDiv(a, b)

\* The table index of an angle; angle_rad * TABLE_SIZE / (2 pi) is ten times
\* the angle in degrees, here a hundredth of a degree over ten.
TrigIndex(angle_deg) ==
    LET index == TruncRem(TruncDiv(angle_deg * TABLE_SIZE, 36000), TABLE_SIZE)
    IN  IF index < 0 THEN index + TABLE_SIZE ELSE index

\* sin_table / cos_table.  Entry 0 holds sin(0) = 0 and cos(0) = 1 exactly;
\* the runs use only nib angles that land on it.
sin_table(index) == CASE index = 0 -> 0
cos_table(index) == CASE index = 0 -> 1

fast_sin(angle_deg) == sin_table(TrigIndex(angle_deg))
fast_cos(angle_deg) == cos_table(TrigIndex(angle_deg))

----------------------------------------------------------------------------
(* The thickness model shared by the segment calculator and the mesh builder *)

\* sqrt of a perfect square
Sqrt(n) == CHOOSE r \in 0 .. n : r * r = n

RatMax(a, b) == IF RatGT(b, a) THEN b ELSE a

\* nib_dir, clamped_width_factor and thickness_base of a call
NibOf(stroke_width_, nib_angle_deg_, nib_width_factor_) ==
    [dir |-> [x |-> fast_cos(nib_angle_deg_), y |-> fast_sin(nib_angle_deg_)],
     thickness_base |-> Ratio(stroke_width_ * Clamp(nib_width_factor_, 3, 25), 10)]

\* length_sq < 1e-12
IsDegenerate(a, b) == dist2(a.x, a.y, b.x, b.y) < 1

\* (a.pressure + b.pressure) * 0.5, pressures in hundredths
AvgPressure(a, b) == Ratio(a.pressure + b.pressure, 200)

\* max(0.6, thickness_base * (0.35 + 0.9 * |tangent x nib_dir|) * avg_pressure)
Thickness(a, b, nib) ==
    LET segx == b.x - a.x
        segy == b.y - a.y
        length == Sqrt(segx * segx + segy * segy)
        c == segx * nib.dir.y - segy * nib.dir.x
        cross_product == Ratio(IF c < 0 THEN -c ELSE c, length)
        shape == Ratio(35 * cross_product.den + 90 * cross_product.num,
                       100 * cross_product.den)
        p == AvgPressure(a, b)
    IN  RatMax(Ratio(3, 5),
               Ratio(nib.thickness_base.num * shape.num * p.num,
                     nib.thickness_base.den * shape.den * p.den))

----------------------------------------------------------------------------
(* calculate_calligraphy_segments *)

NoSegment == [x1 |-> -1, y1 |-> -1, x2 |-> -1, y2 |-> -1,
              thickness |-> Ratio(0, 1), alpha |-> Ratio(0, 1)]

CalligraphySegment(a, b, nib, opacity_) ==
    [x1 |-> a.x, y1 |-> a.y, x2 |-> b.x, y2 |-> b.y,
     thickness |-> Thickness(a, b, nib), alpha |-> Ratio(opacity_, 100)]

RECURSIVE SegmentLoop(_, _, _, _, _, _, _, _)
SegmentLoop(points_, point_count, nib, opacity_, max_segments, i, segment_count, buf) ==
    IF i < point_count - 1 /\ segment_count < max_segments
    THEN LET a == At(points_, i)
             b == At(points_, i + 1)
         IN  IF IsDegenerate(a, b)
             THEN SegmentLoop(points_, point_count, nib, opacity_, max_segments,
                              i + 1, segment_count, buf)
             ELSE SegmentLoop(points_, point_count, nib, opacity_, max_segments,
                              i + 1, segment_count + 1,
                              [buf EXCEPT ![segment_count] =
                                  CalligraphySegment(a, b, nib, opacity_)])
    ELSE [ret |-> segment_count, buf |-> buf]

calculate_calligraphy_segments(points_, point_count, stroke_width_, opacity_, nib_angle_deg_, nib_width_factor_, buf, max_segments) ==
    IF point_count < 2 \/ max_segments <= 0
    THEN [ret |-> 0, buf |-> buf]
    ELSE SegmentLoop(points_, point_count,
                     NibOf(stroke_width_, nib_angle_deg_, nib_width_factor_),
                     opacity_, max_segments, 0, 0, buf)

----------------------------------------------------------------------------
(* build_calligraphy_mesh *)

NoVertex == [x |-> Ratio(-1, 1), y |-> Ratio(-1, 1), alpha |-> Ratio(-1, 1)]
NoIndex == -1

\* c + k * half_w / length: one coordinate of an endpoint moved along the
\* perpendicular n = (-t.y, t.x), t = seg / length
Offset(c, k, half_w, length) ==
    Ratio(c * length * half_w.den + k * half_w.num, length * half_w.den)

\* va = std::clamp(opacity * pressure, 0.0, 1.0)
VertexAlpha(opacity_, a, b) ==
    LET p == AvgPressure(a, b)
    IN  ClampUnit(Ratio(opacity_ * p.num, 100 * p.den))

\* The four vertices a_l, a_r, b_l, b_r of a segment's quad.
QuadVertices(a, b, nib, opacity_) ==
    LET segx == b.x - a.x
        segy == b.y - a.y
        length == Sqrt(segx * segx + segy * segy)
        thickness == Thickness(a, b, nib)
        half_w == Ratio(thickness.num, 2 * thickness.den)
        va == VertexAlpha(opacity_, a, b)
    IN  << [x |-> Offset(a.x, segy, half_w, length),
            y |-> Offset(a.y, -segx, half_w, length), alpha |-> va],
           [x |-> Offset(a.x, -segy, half_w, length),
            y |-> Offset(a.y, segx, half_w, length), alpha |-> va],
           [x |-> Offset(b.x, segy, half_w, length),
            y |-> Offset(b.y, -segx, half_w, length), alpha |-> va],
           [x |-> Offset(b.x, -segy, half_w, length),
            y |-> Offset(b.y, segx, half_w, length), alpha |-> va] >>

\* Mutation: the last index of the second triangle points one quad ahead.
QuadIndices_NextQuad(base) ==
    <<base + 0, base + 2, base + 1, base + 1, base + 2, base + 4>>

\* Indices (two triangles): (0,2,1) and (1,2,3) with base offset
QuadIndices(base) ==
    <<base + 0, base + 2, base + 1, base + 1, base + 2, base + 3>>

\* Mutation: only the vertex capacity is tested.
MeshFull_VerticesOnly(vcount, max_vertices, icount, max_indices_) ==
    vcount + 4 > max_vertices

\* vcount + 4 > max_vertices || icount + 6 > max_indices
MeshFull(vcount, max_vertices, icount, max_indices_) ==
    vcount + 4 > max_vertices \/ icount + 6 > max_indices_

\* buf with the elements of seq stored from slot `from` on
Store(buf, from, seq) ==
    [k \in DOMAIN buf |->
        IF k >= from /\ k < from + Len(seq) THEN seq[k - from + 1] ELSE buf[k]]

RECURSIVE MeshLoop(_, _, _, _, _, _, _, _, _, _, _)
MeshLoop(points_, point_count, nib, opacity_, max_vertices, max_indices_, i, vcount, icount, vbuf, ibuf) ==
    IF i < point_count - 1
    THEN LET a == At(points_, i)
             b == At(points_, i + 1)
         IN  IF IsDegenerate(a, b)
             THEN MeshLoop(points_, point_count, nib, opacity_, max_vertices,
                           max_indices_, i + 1, vcount, icount, vbuf, ibuf)
             ELSE IF MeshFull(vcount, max_vertices, icount, max_indices_)
             THEN [ret |-> vcount, index_count |-> icount,
                   vbuf |-> vbuf, ibuf |-> ibuf]
             ELSE MeshLoop(points_, point_count, nib, opacity_, max_vertices,
                           max_indices_, i + 1, vcount + 4, icount + 6,
                           Store(vbuf, vcount, QuadVertices(a, b, nib, opacity_)),
                           Store(ibuf, icount, QuadIndices(vcount)))
    ELSE [ret |-> vcount, index_count |-> icount, vbuf |-> vbuf, ibuf |-> ibuf]

build_calligraphy_mesh(points_, point_count, stroke_width_, opacity_, nib_angle_deg_, nib_width_factor_, vbuf, max_vertices, ibuf, max_indices_) ==
    IF point_count < 2 \/ max_vertices < 4 \/ max_indices_ < 6
    THEN [ret |-> 0, index_count |-> 0, vbuf |-> vbuf, ibuf |-> ibuf]
    ELSE MeshLoop(points_, point_count,
                  NibOf(stroke_width_, nib_angle_deg_, nib_width_factor_),
                  opacity_, max_vertices, max_indices_, 0, 0, 0, vbuf, ibuf)

----------------------------------------------------------------------------
(* The callers of the segment calculator and the mesh builder *)

\* Longest stroke handed to the segment calculator and the mesh builder.
MaxMeshLen == 4

\* Corners of a 30 x 40 rectangle: every distance between two of them is a
\* whole number (30, 40 or 50).
MeshSamples ==
    {PointData(0, 0, 100, 0, 0, 0), PointData(30, 0, 50, 1, 0, 0),
     PointData(30, 40, 150, 2, 0, 0)}

\* Memory behind output_segments, out_vertices and out_indices.
SegmentSlots == 0 .. MaxMeshLen
VertexSlots == 0 .. (4 * MaxMeshLen)
IndexSlots == 0 .. (6 * MaxMeshLen)

\* stroke_width, nib_width_factor (tenths), nib_angle_deg (hundredths of a
\* degree), opacity (hundredths)
NibSettings == {<<1, 1, 0, -50>>, <<3, 10, 5, 50>>, <<2, 30, -36005, 150>>,
                <<3, 10, 36005, 150>>}

SegmentCapacities == -1 .. (MaxMeshLen - 1)

\* max_vertices, max_indices: none, one short of a quad, room for one or
\* two quads in either buffer, spare room
MeshCapacities ==
    {<<-1, 6>>, <<0, 0>>, <<3, 6>>, <<4, 5>>, <<4, 6>>, <<8, 6>>, <<4, 12>>,
     <<7, 11>>, <<8, 12>>, <<11, 12>>, <<8, 17>>, <<4 * MaxMeshLen, 6 * MaxMeshLen>>}

InitMesh ==
    /\ points \in Strokes(MeshSamples, MaxMeshLen)
    /\ Idle
    /\ output_segments = [k \in SegmentSlots |-> NoSegment]
    /\ out_vertices = [k \in VertexSlots |-> NoVertex]
    /\ out_indices = [k \in IndexSlots |-> NoIndex]

CallSegments ==
    /\ op = "none"
    /\ \E n \in Counts(points), cap \in SegmentCapacities, nib \in NibSettings :
          LET r == calculate_calligraphy_segments(points, n, nib[1], nib[4], nib[3],
                                                  nib[2], output_segments, cap)
          IN  /\ op' = "segments"
              /\ input_count' = n
              /\ max_output' = cap
              /\ stroke_width' = nib[1]
              /\ nib_width_factor' = nib[2]
              /\ nib_angle_deg' = nib[3]
              /\ opacity' = nib[4]
              /\ ret' = r.ret
              /\ output_segments' = r.buf
    /\ UNCHANGED <<points, max_indices, smoothing_factor, spacing, epsilon,
                   output_points, out_velocities, out_vertices, out_indices,
                   out_index_count>>

CallMesh ==
    /\ op = "none"
    /\ \E n \in Counts(points), cap \in MeshCapacities, nib \in NibSettings :
          LET r == build_calligraphy_mesh(points, n, nib[1], nib[4], nib[3], nib[2],
                                          out_vertices, cap[1], out_indices, cap[2])
          IN  /\ op' = "mesh"
              /\ input_count' = n
              /\ max_output' = cap[1]
              /\ max_indices' = cap[2]
              /\ stroke_width' = nib[1]
              /\ nib_width_factor' = nib[2]
              /\ nib_angle_deg' = nib[3]
              /\ opacity' = nib[4]
              /\ ret' = r.ret
              /\ out_index_count' = r.index_count
              /\ out_vertices' = r.vbuf
              /\ out_indices' = r.ibuf
    /\ UNCHANGED <<points, smoothing_factor, spacing, epsilon, output_points,
                   out_velocities, output_segments>>

NextMesh == CallSegments \/ CallMesh

SpecMesh == InitMesh /\ [][NextMesh]_vars

----------------------------------------------------------------------------
(* Properties of the filters, checked under SpecFilters *)

FilterOps == {"smooth", "resample", "simplify", "velocity"}

\* The input the call was given: the first input_count samples.
Input == SubSeq(points, 1, input_count)

\* The elements the call reports as written.
Output == Written(output_points, ret)

\* C1: whichever filter ran, for every input length and every capacity from
\* 0 up, the returned count is at most the capacity; and for every capacity
\* (negative ones too) no slot at an index >= capacity has been written.
C1_OutputWithinCapacity ==
    op \in FilterOps =>
        /\ max_output >= 0 => ret <= max_output
        /\ \A k \in Slots :
              k >= max_output =>
                  /\ output_points[k] = NoPoint
                  /\ out_velocities[k] = NoVelocity

\* A resampling that filled a capacity smaller than its input.
C1_Witness ==
    /\ op = "resample"
    /\ input_count > max_output
    /\ max_output >= 2
    /\ ret = max_output
    /\ output_points[max_output - 1] # NoPoint

\* C2: every operation returns exactly 0 when its input count or its
\* capacity is zero or negative.
C2_ZeroOnNonPositive ==
    (op \in FilterOps /\ (input_count <= 0 \/ max_output <= 0)) => ret = 0

\* The number of samples the spacing walk emits when nothing limits it: the
\* first sample, then each sample at least `sp` away from the last emitted.
RECURSIVE WalkCount(_, _, _, _)
WalkCount(s, i, last, sp) ==
    IF i > Len(s) THEN 0
    ELSE IF dist2(last.x, last.y, s[i].x, s[i].y) >= sp * sp
    THEN 1 + WalkCount(s, i + 1, s[i], sp)
    ELSE WalkCount(s, i + 1, last, sp)

SpacingWalkCount == 1 + WalkCount(Input, 2, Input[1], spacing)

\* First input sample at position 0, last input sample at the final
\* written position.
EndpointsKept ==
    /\ ret >= 1
    /\ output_points[0] = Input[1]
    /\ output_points[ret - 1] = Input[input_count]

\* C3 as stated: resampling any input of length >= 1 into any capacity >= 2
\* puts the first input sample at position 0 and the last input sample at
\* the final written position.
C3_ResampleEndpoints_AnyCapacity ==
    (op = "resample" /\ input_count >= 1 /\ max_output >= 2) => EndpointsKept

\* C3 amended: the same, unless capacity is exhausted first, that is,
\* whenever the spacing walk emits fewer samples than the capacity.
C3_ResampleEndpoints ==
    (/\ op = "resample"
     /\ input_count >= 1
     /\ max_output >= 2
     /\ SpacingWalkCount < max_output) => EndpointsKept

\* The walk left exactly one slot, which the final sample took although it
\* fails the spacing test against the last emitted sample.
C3_Witness ==
    /\ op = "resample"
    /\ input_count >= 3
    /\ SpacingWalkCount = max_output - 1
    /\ ret = max_output
    /\ spacing > 0
    /\ dist2(output_points[ret - 2].x, output_points[ret - 2].y,
             output_points[ret - 1].x, output_points[ret - 1].y) < spacing * spacing
    /\ EndpointsKept

ResampleExample ==
    <<PointData(0, 0, 100, 0, 0, 0), PointData(10, 0, 100, 1, 0, 0),
      PointData(20, 0, 100, 2, 0, 0)>>

\* C4: resampling (0,0), (10,0), (20,0) at spacing 5 with sufficient
\* capacity returns exactly these three samples; the final sample is emitted
\* once, so the output never has more samples than the input.
C4_ExampleYieldsThree ==
    (/\ op = "resample"
     /\ Input = ResampleExample
     /\ spacing = 5
     /\ max_output >= 3) => (ret = 3 /\ Output = ResampleExample)

\* All three samples on one straight line.
Collinear(a, p, b) == (p.x - a.x) * (b.y - a.y) = (p.y - a.y) * (b.x - a.x)

\* p on the closed segment from a to b.
OnSegment(a, p, b) ==
    /\ Collinear(a, p, b)
    /\ Min(a.x, b.x) <= p.x /\ p.x <= Max(a.x, b.x)
    /\ Min(a.y, b.y) <= p.y /\ p.y <= Max(a.y, b.y)

EndpointsOnly == ret = 2 /\ Output = <<Input[1], Input[3]>>

\* C5 as stated: three collinear samples, in any order along the line, any
\* epsilon > 0, capacity >= 2: the result is exactly the two endpoints.
C5_CollinearAnyOrder ==
    (/\ op = "simplify"
     /\ input_count = 3
     /\ Collinear(Input[1], Input[2], Input[3])
     /\ epsilon > 0
     /\ max_output >= 2) => EndpointsOnly

\* C5 amended: the same when the middle sample lies on the segment between
\* the first and the last sample.
C5_CollinearBetween ==
    (/\ op = "simplify"
     /\ input_count = 3
     /\ OnSegment(Input[1], Input[2], Input[3])
     /\ epsilon > 0
     /\ max_output >= 2) => EndpointsOnly

\* A middle sample strictly inside the segment, dropped at a small epsilon.
C5_Witness ==
    /\ op = "simplify"
    /\ input_count = 3
    /\ OnSegment(Input[1], Input[2], Input[3])
    /\ <<Input[2].x, Input[2].y>> # <<Input[1].x, Input[1].y>>
    /\ <<Input[2].x, Input[2].y>> # <<Input[3].x, Input[3].y>>
    /\ epsilon = 1
    /\ max_output >= 2
    /\ EndpointsOnly

RECURSIVE IsSubsequence(_, _)
IsSubsequence(a, b) ==
    IF a = <<>> THEN TRUE
    ELSE IF b = <<>> THEN FALSE
    ELSE IF Head(a) = Head(b) THEN IsSubsequence(Tail(a), Tail(b))
    ELSE IsSubsequence(a, Tail(b))

\* C10: the output of simplify_stroke_rdp is a subsequence of its input in
\* input order (strictly increasing input indices), for any input, epsilon
\* and capacity, truncated or not.
C10_SimplifyIsSubsequence ==
    op = "simplify" => IsSubsequence(Output, Input)

\* Interior samples were retained on both sides of the first split and the
\* result was returned whole.
C10_Witness ==
    /\ op = "simplify"
    /\ input_count = 5
    /\ ret = 5
    /\ Cardinality({Input[k] : k \in 1 .. 5}) >= 3
    /\ Output = Input

----------------------------------------------------------------------------
(* Properties of the segment calculator and the mesh builder, checked under
   SpecMesh *)

\* 0 <= r <= 1
InUnit(r) == r.num >= 0 /\ r.num <= r.den

\* C7: every emitted alpha lies in [0,1], for any opacity and pressure: the
\* alpha of every CalligraphySegment written by
\* calculate_calligraphy_segments and of every Vertex2D written by
\* build_calligraphy_mesh.
C7_AlphaInUnitRange ==
    /\ op = "segments" =>
          \A k \in SegmentSlots : k < ret => InUnit(output_segments[k].alpha)
    /\ op = "mesh" =>
          \A k \in VertexSlots : k < ret => InUnit(out_vertices[k].alpha)

\* The consecutive pairs of s whose two samples differ in position, in
\* input order.
RECURSIVE NonDegeneratePairs(_)
NonDegeneratePairs(s) ==
    IF Len(s) < 2 THEN <<>>
    ELSE IF s[1].x = s[2].x /\ s[1].y = s[2].y
    THEN NonDegeneratePairs(Tail(s))
    ELSE <<(<<s[1], s[2]>>)>> \o NonDegeneratePairs(Tail(s))

CallNib == NibOf(stroke_width, nib_angle_deg, nib_width_factor)

\* C8: for every input and every pair of capacities, the vertex count
\* returned by build_calligraphy_mesh is a multiple of 4, the index count
\* reported is a multiple of 6, every index written is below the vertex
\* count, and no segment is emitted in part: the slots written are exactly
\* the first `ret` vertices and the first `out_index_count` indices.
C8_MeshCounts ==
    op = "mesh" =>
        /\ ret >= 0 /\ ret % 4 = 0
        /\ out_index_count >= 0 /\ out_index_count % 6 = 0
        /\ \A k \in IndexSlots :
              /\ (out_indices[k] # NoIndex) <=> (k < out_index_count)
              /\ out_indices[k] < ret
        /\ \A k \in VertexSlots : (out_vertices[k] # NoVertex) <=> (k < ret)

\* Three segments to draw, room for two quads and three spare vertices.
C8_Witness ==
    /\ op = "mesh"
    /\ Len(NonDegeneratePairs(Input)) = 3
    /\ max_output = 11
    /\ max_indices >= 12
    /\ ret = 8
    /\ out_index_count = 12
    /\ out_indices[11] = 7

\* s with a copy of its j-th sample inserted after it
InsertDuplicate(s, j) == SubSeq(s, 1, j) \o SubSeq(s, j, Len(s))

\* C9: a coincident consecutive pair contributes nothing and uses no
\* capacity.  For capacities >= 0, calculate_calligraphy_segments returns
\* min(max_segments, number of non-degenerate pairs) descriptors, those of the
\* first that many non-degenerate pairs in input order; build_calligraphy_mesh
\* emits the quads of the first min(number of non-degenerate pairs,
\* max_vertices div 4, max_indices div 6) non-degenerate pairs and nothing
\* else; and the same call on the input with any one sample duplicated in
\* place gives the same result.
C9_DegeneratePairsSkipped ==
    LET nd == NonDegeneratePairs(Input)
    IN  /\ (op = "segments" /\ max_output >= 0) =>
              LET m == Min(max_output, Len(nd))
              IN  /\ ret = m
                  /\ \A k \in SegmentSlots :
                        output_segments[k] =
                            IF k < m
                            THEN CalligraphySegment(nd[k + 1][1], nd[k + 1][2],
                                                    CallNib, opacity)
                            ELSE NoSegment
                  /\ \A j \in 1 .. input_count :
                        calculate_calligraphy_segments(
                            InsertDuplicate(Input, j), input_count + 1,
                            stroke_width, opacity, nib_angle_deg, nib_width_factor,
                            [k \in SegmentSlots |-> NoSegment], max_output)
                        = [ret |-> ret, buf |-> output_segments]
        /\ (op = "mesh" /\ max_output >= 0 /\ max_indices >= 0) =>
              LET m == Min(Len(nd), Min(max_output \div 4, max_indices \div 6))
              IN  /\ ret = 4 * m
                  /\ out_index_count = 6 * m
                  /\ \A k \in VertexSlots :
                        out_vertices[k] =
                            IF k < 4 * m
                            THEN QuadVertices(nd[(k \div 4) + 1][1],
                                              nd[(k \div 4) + 1][2],
                                              CallNib, opacity)[(k % 4) + 1]
                            ELSE NoVertex
                  /\ \A k \in IndexSlots :
                        out_indices[k] =
                            IF k < 6 * m
                            THEN QuadIndices(4 * (k \div 6))[(k % 6) + 1]
                            ELSE NoIndex
                  /\ \A j \in 1 .. input_count :
                        build_calligraphy_mesh(
                            InsertDuplicate(Input, j), input_count + 1,
                            stroke_width, opacity, nib_angle_deg, nib_width_factor,
                            [k \in VertexSlots |-> NoVertex], max_output,
                            [k \in IndexSlots |-> NoIndex], max_indices)
                        = [ret |-> ret, index_count |-> out_index_count,
                           vbuf |-> out_vertices, ibuf |-> out_indices]

\* A coincident pair between two drawn segments, and room for exactly two
\* quads: both segments are emitted.
C9_Witness ==
    /\ op = "mesh"
    /\ input_count = 4
    /\ Input[2] = Input[3]
    /\ Len(NonDegeneratePairs(Input)) = 2
    /\ max_output = 8
    /\ max_indices = 12
    /\ ret = 8
    /\ out_index_count = 12

====
